---- MODULE Spec2Model ----
(***************************************************************************)
(* The single-page frontend of AI Scrum Master (frontend/src/App.js):      *)
(* the tab router, the four form modules (StandupModule, RetroModule,      *)
(* BlockersModule, SmartTicketGenerator) with their submit handlers, and   *)
(* the Dashboard with its polling timer.  Exactly one module is mounted;   *)
(* HTTP exchanges and timers outlive the module instance that started      *)
(* them, so each carries an `alive` flag that is cleared when its owner is *)
(* unmounted.  The shared ExportButton and the ticket module's Export to   *)
(* JIRA are explored by ExportSpec, from the states in which a module      *)
(* shows a result.                                                         *)
(***************************************************************************)
EXTENDS Integers, FiniteSets, Sequences, TLC

(* ------------------------------ bounds -------------------------------- *)
\* POSTs in flight at once (of the mounted and of discarded instances)
MaxRequests == 2
\* dashboard fetch cycles in flight at once
MaxFetches == 2
\* granularity of the passage of time, in ms
TimeStep == 15000
\* the elapsed-time stopwatch saturates here, in ms
MaxElapsed == 30000
\* exchanges and timers of discarded instances still in flight at once
MaxOrphans == 1
\* export GETs in flight at once
MaxExports == 2

(* ------------------------- program constants -------------------------- *)
PollInterval == 30000

Null == [isNull |-> TRUE]

NoInput == [unmounted |-> TRUE]

\* Sidebar.menuItems ids
Tabs == {"dashboard", "standup", "sprint", "ticket", "retro", "blockers",
         "insights", "integrations"}

FormModules == {"StandupModule", "RetroModule", "BlockersModule",
                "SmartTicketGenerator"}

\* a router without the placeholder cases
renderActiveModuleNoNotice(tab) ==
    CASE tab = "standup"      -> "StandupModule"
      [] tab = "ticket"       -> "SmartTicketGenerator"
      [] tab = "blockers"     -> "BlockersModule"
      [] tab = "retro"        -> "RetroModule"
      [] OTHER                -> "Dashboard"

\* App.renderActiveModule
renderActiveModule(tab) ==
    CASE tab = "standup"      -> "StandupModule"
      [] tab = "ticket"       -> "SmartTicketGenerator"
      [] tab = "sprint"       -> "construction-notice"
      [] tab = "blockers"     -> "BlockersModule"
      [] tab = "retro"        -> "RetroModule"
      [] tab = "insights"     -> "construction-notice"
      [] tab = "integrations" -> "construction-notice"
      [] tab = "dashboard"    -> "Dashboard"
      [] OTHER                -> "Dashboard"

\* the useState initial value of each module's form input
InitialInput(module) ==
    CASE module = "StandupModule" ->
           [team_member_id |-> "", yesterday |-> "", today |-> "",
            blockers |-> "", mood |-> "neutral", confidence_level |-> 5]
      [] module = "RetroModule" ->
           [sprint_id |-> "SPRINT-24", went_well |-> "", went_poorly |-> "",
            improvements |-> "", team_mood |-> "neutral",
            velocity_achieved |-> 0, goals_met |-> 0]
      [] module = "BlockersModule" ->
           [days_threshold |-> 3, include_external_dependencies |-> TRUE,
            analyze_code_reviews |-> TRUE]
      [] module = "SmartTicketGenerator" ->
           [title |-> "", description |-> "", project_context |-> "",
            assignee_id |-> "", priority |-> "Medium", labels |-> <<>>]
      [] OTHER -> NoInput

\* the fixed URL each module posts to (API = BACKEND_URL + "/api")
SubmitPath(module) ==
    CASE module = "StandupModule"        -> "/api/standup"
      [] module = "RetroModule"          -> "/api/retrospective"
      [] module = "BlockersModule"       -> "/api/blockers"
      [] module = "SmartTicketGenerator" -> "/ticket"

\* values the user can give a field (the onChange handlers of the forms)
FieldValues(module, f) ==
    CASE f = "team_member_id"    -> {"", "1"}
      [] f = "mood"              -> {"neutral", "negative"}
      [] f = "team_mood"         -> {"neutral", "negative"}
      [] f = "confidence_level"  -> {5, 3}
      [] f = "velocity_achieved" -> {0, 20}
      [] f = "goals_met"         -> {0, 50}
      [] f = "days_threshold"    -> {3, 7}
      [] f = "include_external_dependencies" -> BOOLEAN
      [] f = "analyze_code_reviews"          -> BOOLEAN
      [] f = "priority"          -> {"Medium", "Low"}
      [] f = "labels"            -> {<<>>, <<"bug">>}
      [] OTHER                   -> {"", "x"}

\* bodies of the ticket endpoint, with and without an identifier: they
\* carry the priority and the labels the ticket preview reads
TicketResults == { [id |-> "t1", priority |-> "High", labels |-> <<"bug">>],
                   [priority |-> "Low", labels |-> <<>>] }

\* response bodies the backend may return: opaque mappings, with or
\* without an identifier, with different field sets
Results == { [id |-> "r1", formatted_output |-> "a"],
             [summary |-> "b"] } \cup TicketResults

\* the bodies the endpoint of a module answers with
ResultsOf(module) ==
    IF module = "SmartTicketGenerator" THEN TicketResults
    ELSE Results \ TicketResults

\* bodies of non-2xx responses, with and without a detail field
ErrorBodies == { [detail |-> "Invalid ticket"], [message |-> "oops"] }

\* how a POST can settle: a 2xx response with a parsed body, a non-2xx
\* response with an error body, or no response at all
Replies == [outcome : {"ok"}, body : Results]
             \cup [outcome : {"http_error"}, body : ErrorBodies]
             \cup {[outcome |-> "network_error", body |-> Null]}

\* how the POST of a module can settle
RepliesTo(module) ==
    {reply \in Replies :
       reply.outcome = "ok" => reply.body \in ResultsOf(module)}

VARIABLES
    activeTab,       \* App: useState('dashboard')
    input,           \* the mounted module's input / formData
    output,          \* the mounted module's output
    loading,         \* the mounted module's loading
    selectedMember,  \* StandupModule: selectedMember
    voiceRecording,  \* StandupModule: voiceRecording
    notice,          \* the message the last step showed (alert or validity bubble)
    metrics,         \* Dashboard: metrics
    insights,        \* Dashboard: insights
    requests,        \* POSTs in flight, in issue order
    fetches,         \* dashboard fetch cycles in flight, in issue order
    intervals,       \* setInterval timers that have not been cleared
    elapsed,         \* ms since the last fetch cycle of this mount started
    voice,           \* setTimeout callbacks of startVoiceRecording in flight
    lateWrites,      \* state setters the last step invoked on an unmounted instance
    exports,         \* export GETs in flight, in issue order
    exported         \* what the export code run by the last step did

vars == <<activeTab, input, output, loading, selectedMember, voiceRecording,
          notice, metrics, insights, requests, fetches, intervals, elapsed,
          voice, lateWrites, exports, exported>>

Mounted == renderActiveModule(activeTab)

Min(a, b) == IF a < b THEN a ELSE b
Max(a, b) == IF a > b THEN a ELSE b

RemoveAt(s, i) == [j \in 1..(Len(s) - 1) |-> IF j < i THEN s[j] ELSE s[j + 1]]

(* --------------------------- mounting --------------------------------- *)
NoNotice == [kind |-> "none", text |-> <<>>]

\* a step that shows no message and calls no setter of a discarded instance
Quiet == notice' = NoNotice /\ lateWrites' = {}

NoFile == [none |-> TRUE]

\* the trace of a step that runs no export code: no file, nothing on the
\* clipboard, nothing logged, no object URL created or revoked
NoExport == [file |-> NoFile, clipboard |-> <<>>, logged |-> FALSE,
             created |-> 0, revoked |-> 0]

\* a step that runs no export code
NoExportStep == exported' = NoExport /\ exports' = exports

\* the pending fetch cycles after the Dashboard has been unmounted: the
\* continuations will still run, on an instance that no longer exists, so
\* of a GET only whether it has resolved is kept
Orphaned(fs) ==
    [j \in DOMAIN fs |->
       [alive |-> FALSE,
        m |-> IF fs[j].m = "pending" THEN "pending" ELSE "resolved",
        i |-> IF fs[j].i = "pending" THEN "pending" ELSE "resolved"]]

\* a pending POST of a discarded instance; what the discarded closure held
\* can no longer reach the page, only the fact that it will run is kept
OrphanedPosts(rs) ==
    [j \in DOMAIN rs |-> [rs[j] EXCEPT !.alive = FALSE, !.body = NoInput,
                                       !.before = Null]]

\* a pending voice timer of a discarded instance
OrphanedVoice(vs) == {[alive |-> FALSE, captured |-> NoInput] : v \in vs}

\* Dashboard.fetchDashboardData up to its await: the two GETs of
\* Promise.all are sent
StartFetch(fs, owner) ==
    Append(fs, [alive |-> owner, m |-> "pending", i |-> "pending"])

\* Dashboard useEffect: setInterval(fetchDashboardData, 30000)
setInterval(ts) == ts \cup {[alive |-> TRUE, left |-> PollInterval]}

\* a cleanup that forgets to clear the timer
clearIntervalLeak(ts) == ts

\* Dashboard useEffect cleanup: clearInterval(interval)
clearInterval(ts) == {t \in ts : ~t.alive}

\* timers that survive the unmount of their owner
OrphanedTimers(ts) == {[t EXCEPT !.alive = FALSE] : t \in ts}

\* the fetch the Dashboard effect issues on mount
FetchOnMount(fs) == StartFetch(fs, TRUE)

\* a module whose result survives the tab switch
MountOutputKept(prev) == prev

\* useState(null) of output in the freshly mounted instance
MountOutput(prev) == Null

\* App: setActiveTab(item.id) from the Sidebar; React unmounts the module
\* of the old tab and mounts a fresh instance of the new one
SelectTab(tab) ==
    /\ tab # activeTab
    /\ Len(requests) + Len(fetches) + Cardinality(voice) + Len(exports)
         <= MaxOrphans
    /\ renderActiveModule(tab) = "Dashboard" => Len(fetches) < MaxFetches
    /\ activeTab' = tab
    /\ input' = InitialInput(renderActiveModule(tab))
    /\ output' = MountOutput(output)
    /\ loading' = (renderActiveModule(tab) = "Dashboard")
    /\ selectedMember' = ""
    /\ voiceRecording' = FALSE
    /\ metrics' = "null"
    /\ insights' = "[]"
    /\ requests' = OrphanedPosts(requests)
    /\ voice' = OrphanedVoice(voice)
    /\ elapsed' = 0
    /\ IF renderActiveModule(tab) = "Dashboard"
         THEN /\ fetches' = FetchOnMount(Orphaned(fetches))
              /\ intervals' = setInterval(intervals)
         ELSE /\ fetches' = Orphaned(fetches)
              /\ intervals' =
                   IF Mounted = "Dashboard"
                     THEN OrphanedTimers(clearInterval(intervals))
                     ELSE intervals
    /\ Quiet
    /\ NoExportStep

(* ------------------------- form input --------------------------------- *)
\* an onChange handler of a form control: setInput({...input, [f]: v})
EditField(f, v) ==
    /\ Mounted \in FormModules
    /\ f \in DOMAIN input
    /\ v \in FieldValues(Mounted, f)
    /\ v # input[f]
    /\ input' = [input EXCEPT ![f] = v]
    /\ selectedMember' =
         IF Mounted = "StandupModule" /\ f = "team_member_id"
           THEN v ELSE selectedMember
    /\ Quiet
    /\ UNCHANGED <<activeTab, output, loading, voiceRecording, metrics,
                   insights, requests, fetches, intervals, elapsed, voice>>
    /\ NoExportStep

(* --------------------------- submission ------------------------------- *)
\* the form controls carrying the `required` attribute, in document order
RequiredControls(module) ==
    CASE module = "StandupModule" -> <<"team_member_id", "yesterday", "today">>
      [] module = "RetroModule" ->
           <<"sprint_id", "went_well", "went_poorly", "improvements">>
      [] module = "SmartTicketGenerator" -> <<"description">>
      [] OTHER -> <<>>

\* the value a control shows: the Standup select is bound to
\* selectedMember, every other control to its field of the input
ControlValue(module, f) ==
    IF module = "StandupModule" /\ f = "team_member_id"
      THEN selectedMember
      ELSE input[f]

\* constraint validation of the form on a submit click: the required
\* controls that are empty, in document order
InvalidControls(module) ==
    SelectSeq(RequiredControls(module), LAMBDA f : ControlValue(module, f) = "")

\* the field handleSubmit itself tests before sending ("" when none)
HandlerChecks(module) ==
    CASE module = "StandupModule"        -> "team_member_id"
      [] module = "SmartTicketGenerator" -> "description"
      [] OTHER                           -> ""

\* the alert of handleSubmit's early return
ValidationAlert(module) ==
    CASE module = "StandupModule" ->
           [kind |-> "alert", text |-> <<"Please select a team member">>]
      [] module = "SmartTicketGenerator" ->
           [kind |-> "alert", text |-> <<"Please provide a ticket description">>]

\* the POST a handleSubmit sends; `before` remembers the output shown when
\* the call was made
NewRequest(module, body) ==
    [module |-> module, path |-> SubmitPath(module), body |-> body,
     alive |-> TRUE, before |-> output]

\* the requests in flight after handleSubmit has sent its POST
SendPost(rs, module, body) == Append(rs, NewRequest(module, body))

\* handleSubmit of the mounted module, run with the input its closure
\* holds, up to the await of the POST
handleSubmit(body) ==
    IF HandlerChecks(Mounted) # "" /\ body[HandlerChecks(Mounted)] = ""
      THEN /\ notice' = ValidationAlert(Mounted)
           /\ UNCHANGED <<loading, requests>>
      ELSE /\ Len(requests) < MaxRequests
           /\ loading' = TRUE
           /\ requests' = SendPost(requests, Mounted, body)
           /\ notice' = NoNotice

\* a click on the submit button (disabled while loading): the browser
\* validates the form and fires onSubmit only when every required control
\* is filled
ClickSubmit ==
    /\ Mounted \in FormModules
    /\ ~loading
    /\ IF InvalidControls(Mounted) # <<>>
         THEN /\ notice' = [kind |-> "validity",
                            text |-> <<Head(InvalidControls(Mounted))>>]
              /\ UNCHANGED <<loading, requests>>
         ELSE handleSubmit(input)
    /\ lateWrites' = {}
    /\ UNCHANGED <<activeTab, input, output, selectedMember, voiceRecording,
                   metrics, insights, fetches, intervals, elapsed, voice>>
    /\ NoExportStep

\* a Run Analysis button that is disabled while loading
runMockAnalysisGuarded ==
    /\ Mounted = "BlockersModule"
    /\ ~loading
    /\ input' = [days_threshold |-> 3, include_external_dependencies |-> TRUE,
                 analyze_code_reviews |-> TRUE]
    /\ handleSubmit(input)
    /\ lateWrites' = {}
    /\ UNCHANGED <<activeTab, output, selectedMember, voiceRecording,
                   metrics, insights, fetches, intervals, elapsed, voice>>
    /\ NoExportStep

\* BlockersModule.runMockAnalysis: setInput(defaults), then handleSubmit,
\* whose closure still holds the input of the current render
runMockAnalysis ==
    /\ Mounted = "BlockersModule"
    /\ input' = [days_threshold |-> 3, include_external_dependencies |-> TRUE,
                 analyze_code_reviews |-> TRUE]
    /\ handleSubmit(input)
    /\ lateWrites' = {}
    /\ UNCHANGED <<activeTab, output, selectedMember, voiceRecording,
                   metrics, insights, fetches, intervals, elapsed, voice>>
    /\ NoExportStep

\* a handler that merges the response into the previous result
OutputMerged(prev, resp) == resp @@ prev

\* setOutput(response.data) / setOutput(result)
OutputOnSuccess(prev, resp) == resp

\* a catch branch that puts back the result shown when the call was made
OutputUndone(prev, before) == before

\* the catch branch: the output is not written (`before` is what the
\* module showed when the call was made)
OutputOnFailure(prev, before) == prev

\* a catch branch that sends the failed POST again
AfterSettleRetry(rs, k, reply) ==
    IF reply.outcome = "ok" THEN RemoveAt(rs, k)
    ELSE Append(RemoveAt(rs, k), rs[k])

\* the POSTs in flight once the one in position k has settled: the catch
\* branch sends nothing
AfterSettle(rs, k, reply) == RemoveAt(rs, k)

\* the finally branch: setLoading(false)
LoadingOnSettle(prev) == FALSE

\* a Ticket handler whose two failure branches show the same fixed text
FailureNoticeFixed(module, outcome, err) ==
    IF module # "SmartTicketGenerator" THEN NoNotice
    ELSE [kind |-> "alert", text |-> <<"Failed to generate ticket">>]

\* what the user is shown when a POST fails: only the ticket module alerts
FailureNotice(module, outcome, err) ==
    IF module # "SmartTicketGenerator" THEN NoNotice
    ELSE IF outcome = "http_error"
      THEN [kind |-> "alert",
            text |-> <<"Error: ", IF "detail" \in DOMAIN err
                                    THEN err.detail
                                    ELSE "Failed to generate ticket">>]
      ELSE [kind |-> "alert", text |-> <<"Failed to generate ticket">>]

\* the setters handleSubmit calls after its await
SettersCalled(outcome) ==
    IF outcome = "ok" THEN {"setOutput", "setLoading"} ELSE {"setLoading"}

\* the continuation of handleSubmit after the await: the POST in position k
\* settles with `reply`
Complete(k, reply) ==
    /\ k \in DOMAIN requests
    /\ requests' = AfterSettle(requests, k, reply)
    /\ notice' = IF reply.outcome = "ok" THEN NoNotice
                 ELSE FailureNotice(requests[k].module, reply.outcome, reply.body)
    /\ IF requests[k].alive
         THEN /\ output' = IF reply.outcome = "ok"
                             THEN OutputOnSuccess(output, reply.body)
                             ELSE OutputOnFailure(output, requests[k].before)
              /\ loading' = LoadingOnSettle(loading)
              /\ lateWrites' = {}
         ELSE /\ lateWrites' = SettersCalled(reply.outcome)
              /\ UNCHANGED <<output, loading>>
    /\ UNCHANGED <<activeTab, input, selectedMember, voiceRecording, metrics,
                   insights, fetches, intervals, elapsed, voice>>
    /\ NoExportStep

(* ----------------------------- dashboard ------------------------------ *)
MetricsBodies == {"m1", "m2"}
InsightsBodies == {"i1", "i2"}

\* how the GET of /metrics ("m") or /insights ("i") can settle
GetReplies(which) ==
    [outcome : {"ok"},
     body : IF which = "m" THEN MetricsBodies ELSE InsightsBodies]
      \cup {[outcome |-> "failed", body |-> "none"]}

\* a continuation that shows the metrics as soon as their own GET has an
\* answer, whatever became of the insights GET
MetricsEager(prev, c, resolved) ==
    IF c.m \in MetricsBodies THEN c.m ELSE prev

\* setMetrics(metricsResponse.data) runs only after Promise.all resolved
MetricsAfter(prev, c, resolved) == IF resolved THEN c.m ELSE prev

\* one GET of the fetch cycle in position k settles.  Promise.all rejects
\* on the first failure and resolves when both GETs have resolved; the
\* continuation of fetchDashboardData then runs
GetSettles(k, which, reply) ==
    /\ k \in DOMAIN fetches
    /\ fetches[k][which] = "pending"
    /\ LET c == [fetches[k] EXCEPT ![which] = reply.body]
           resolved == reply.outcome = "ok" /\ c.m # "pending" /\ c.i # "pending"
       IN  IF reply.outcome = "ok" /\ ~resolved
             THEN /\ fetches' = [fetches EXCEPT ![k] = c]
                  /\ lateWrites' = {}
                  /\ UNCHANGED <<metrics, insights, loading>>
             ELSE /\ fetches' = RemoveAt(fetches, k)
                  /\ IF c.alive
                       THEN /\ metrics' = MetricsAfter(metrics, c, resolved)
                            /\ insights' = IF resolved THEN c.i ELSE insights
                            /\ loading' = FALSE
                            /\ lateWrites' = {}
                       ELSE /\ lateWrites' =
                                 (IF resolved
                                    THEN {"setMetrics", "setInsights", "setLoading"}
                                    ELSE {"setLoading"})
                            /\ UNCHANGED <<metrics, insights, loading>>
    /\ notice' = NoNotice
    /\ UNCHANGED <<activeTab, input, output, selectedMember, voiceRecording,
                   requests, intervals, elapsed, voice>>
    /\ NoExportStep

\* a timer that fires again at once
RearmAtOnce(t) == [t EXCEPT !.left = 0]

\* the period a fired interval timer is re-armed with
Rearm(t) == [t EXCEPT !.left = PollInterval]

\* the interval timer t fires (no earlier than its period, possibly later)
\* and runs fetchDashboardData
Tick(t) ==
    /\ t \in intervals
    /\ t.left = 0
    /\ Len(fetches) < MaxFetches
    /\ fetches' = StartFetch(fetches, t.alive)
    /\ intervals' = (intervals \ {t}) \cup {Rearm(t)}
    /\ elapsed' = IF t.alive THEN 0 ELSE elapsed
    /\ Quiet
    /\ UNCHANGED <<activeTab, input, output, loading, selectedMember,
                   voiceRecording, metrics, insights, requests, voice>>
    /\ NoExportStep

\* TimeStep ms pass
Advance ==
    /\ intervals # {}
    /\ \/ elapsed < MaxElapsed
       \/ \E t \in intervals : t.left > 0
    /\ intervals' = {[t EXCEPT !.left = Max(0, t.left - TimeStep)] : t \in intervals}
    /\ elapsed' = Min(MaxElapsed, elapsed + TimeStep)
    /\ Quiet
    /\ UNCHANGED <<activeTab, input, output, loading, selectedMember,
                   voiceRecording, metrics, insights, requests, fetches, voice>>
    /\ NoExportStep

(* ------------------------ examples and voice -------------------------- *)
\* the canned values of loadExample (long texts abbreviated)
ExampleInput(module) ==
    CASE module = "StandupModule" ->
           [team_member_id |-> "1",
            yesterday |-> "Yesterday I completed the user authentication module ...",
            today |-> "Today I'm focusing on integrating the payment gateway ...",
            blockers |-> "I'm currently blocked waiting for the staging environment ...",
            mood |-> "positive", confidence_level |-> 7]
      [] module = "RetroModule" ->
           [sprint_id |-> "SPRINT-24",
            went_well |-> "Excellent team collaboration ...",
            went_poorly |-> "Testing environment was unstable ...",
            improvements |-> "Establish dedicated focus time blocks ...",
            team_mood |-> "positive", velocity_achieved |-> 28, goals_met |-> 85]
      [] module = "SmartTicketGenerator" ->
           [title |-> "Implement User Dashboard Analytics",
            description |-> "Create a comprehensive analytics dashboard ...",
            project_context |-> "Part of the Q2 user engagement initiative ...",
            assignee_id |-> "", priority |-> "High",
            labels |-> <<"frontend", "analytics", "user-experience">>]

\* a loader that fills only the fields the user has not touched
loadExampleFillEmpty ==
    /\ Mounted \in {"StandupModule", "RetroModule", "SmartTicketGenerator"}
    /\ input' = [f \in DOMAIN input |->
                   IF input[f] = InitialInput(Mounted)[f]
                     THEN ExampleInput(Mounted)[f] ELSE input[f]]
    /\ selectedMember' = IF Mounted = "StandupModule" THEN "1" ELSE selectedMember
    /\ Quiet
    /\ UNCHANGED <<activeTab, output, loading, voiceRecording, metrics,
                   insights, requests, fetches, intervals, elapsed, voice>>
    /\ NoExportStep

\* loadExample of StandupModule, RetroModule and SmartTicketGenerator
loadExample ==
    /\ Mounted \in {"StandupModule", "RetroModule", "SmartTicketGenerator"}
    /\ input' = ExampleInput(Mounted)
    /\ selectedMember' = IF Mounted = "StandupModule" THEN "1" ELSE selectedMember
    /\ Quiet
    /\ UNCHANGED <<activeTab, output, loading, voiceRecording, metrics,
                   insights, requests, fetches, intervals, elapsed, voice>>
    /\ NoExportStep

Transcript ==
    "Transcribed from voice: Yesterday I worked on the payment integration and fixed several bugs in the checkout process."

\* startVoiceRecording as it would be behind a button that is never disabled
startVoiceRecordingAlways ==
    /\ Mounted = "StandupModule"
    /\ voiceRecording' = TRUE
    /\ voice' = voice \cup {[alive |-> TRUE, captured |-> input]}
    /\ Quiet
    /\ UNCHANGED <<activeTab, input, output, loading, selectedMember, metrics,
                   insights, requests, fetches, intervals, elapsed>>
    /\ NoExportStep

\* StandupModule.startVoiceRecording up to setTimeout (button disabled while
\* recording); the callback closes over the input of this render
startVoiceRecording ==
    /\ Mounted = "StandupModule"
    /\ ~voiceRecording
    /\ voiceRecording' = TRUE
    /\ voice' = voice \cup {[alive |-> TRUE, captured |-> input]}
    /\ Quiet
    /\ UNCHANGED <<activeTab, input, output, loading, selectedMember, metrics,
                   insights, requests, fetches, intervals, elapsed>>
    /\ NoExportStep

\* the setTimeout callback of startVoiceRecording runs
VoiceTimeout(v) ==
    /\ v \in voice
    /\ voice' = voice \ {v}
    /\ IF v.alive
         THEN /\ voiceRecording' = FALSE
              /\ input' = [v.captured EXCEPT !.yesterday = Transcript]
              /\ lateWrites' = {}
         ELSE /\ lateWrites' = {"setVoiceRecording", "setInput"}
              /\ UNCHANGED <<voiceRecording, input>>
    /\ notice' = NoNotice
    /\ UNCHANGED <<activeTab, output, loading, selectedMember, metrics,
                   insights, requests, fetches, intervals, elapsed>>
    /\ NoExportStep

(* ------------------------------ export -------------------------------- *)
\* texts are sequences of chunks; a filename keeps its '-' as a chunk
StandupStem == <<"standup", "-", "summary">>
RetroStem == <<"retrospective">>
BlockersStem == <<"blocker", "-", "analysis">>

\* the ExportButton elements each module renders next to its result
ExportButtons(module) ==
    CASE module = "StandupModule" ->
           [filename : {StandupStem},
            format : {"markdown", "slack", "jira", "json"}]
      [] module = "RetroModule" ->
           [filename : {RetroStem}, format : {"markdown", "confluence", "json"}]
      [] module = "BlockersModule" ->
           [filename : {BlockersStem}, format : {"json"}]
      [] OTHER -> {}

\* filename.split('-')[0]
SplitFirst(filename) ==
    LET dashes == {j \in DOMAIN filename : filename[j] = "-"}
    IN  IF dashes = {} THEN filename
        ELSE SubSeq(filename, 1,
                    (CHOOSE j \in dashes : \A h \in dashes : j <= h) - 1)

\* the truthiness test `data.id`
HasId(data) == "id" \in DOMAIN data /\ data.id # ""

\* `${data.id}` in a template string
IdText(data) == IF "id" \in DOMAIN data THEN data.id ELSE "undefined"

\* `${API}/export/${module}/${data.id}?format=${format}`
ExportPath(filename, data, format) ==
    <<"/api", "/export/">> \o SplitFirst(filename)
      \o <<"/", IdText(data), "?format=", format>>

\* a name that always ends in the format tag
DownloadNameRaw(filename, format) == filename \o <<".", format>>

\* `${filename}.${format === 'markdown' ? 'md' : format}`
DownloadName(filename, format) ==
    filename \o <<".", IF format = "markdown" THEN "md" ELSE format>>

\* the order in which JSON.stringify visits the keys of a result
KeyOrder == <<"id", "formatted_output", "summary">>

\* a serializer that leaves the identifier out
ExportedKeysNoId(data) ==
    SelectSeq(KeyOrder, LAMBDA k : k \in DOMAIN data /\ k # "id")

\* the keys JSON.stringify(data, null, 2) writes: all of them (no replacer)
ExportedKeys(data) == SelectSeq(KeyOrder, LAMBDA k : k \in DOMAIN data)

Quote(s) == <<"\"", s, "\"">>

\* one member of a compact object
MemberCompact(k, v) == Quote(k) \o <<":">> \o Quote(v)

\* one member of the pretty-printed object, on its own indented line
Member(k, v) == <<"\n  ">> \o Quote(k) \o <<": ">> \o Quote(v)

RECURSIVE Join(_)
Join(ms) ==
    IF ms = <<>> THEN <<>>
    ELSE IF Len(ms) = 1 THEN ms[1]
    ELSE ms[1] \o <<",">> \o Join(Tail(ms))

\* JSON.stringify(data, null, 2)
JSONstringify(data) ==
    LET ks == ExportedKeys(data)
        ms == [j \in DOMAIN ks |-> Member(ks[j], data[ks[j]])]
    IN  IF ks = <<>> THEN <<"{}">> ELSE <<"{">> \o Join(ms) \o <<"\n}">>

RECURSIVE ParseMembers(_, _)
\* the <<key, value>> pairs of the members that start at position pos
ParseMembers(text, pos) ==
    IF text[pos] = "\n}" THEN {}
    ELSE {<<text[pos + 2], text[pos + 6]>>}
           \cup ParseMembers(text, IF text[pos + 8] = "," THEN pos + 9
                                   ELSE pos + 8)

\* JSON.parse of a downloaded text
JSONparse(text) ==
    LET ps == IF text = <<"{}">> THEN {} ELSE ParseMembers(text, 2)
    IN  [k \in {p[1] : p \in ps} |-> (CHOOSE p \in ps : p[1] = k)[2]]

\* document.body.appendChild(a) and a.click() return or throw
DomOutcomes == {"returns", "throws"}

\* new Blob, URL.createObjectURL, createElement('a'), appendChild, click,
\* URL.revokeObjectURL, removeChild, inside the try of handleExport: a throw
\* between createObjectURL and revokeObjectURL goes to the catch, which
\* logs and releases nothing
Download(content, type, name, dom) ==
    IF dom = "returns"
      THEN [NoExport EXCEPT !.file = [name |-> name, type |-> type,
                                      content |-> content],
                            !.created = 1, !.revoked = 1]
      ELSE [NoExport EXCEPT !.logged = TRUE, !.created = 1]

\* bodies of the export endpoint: with and without content_type, and
\* without content
ExportBodies == { [content |-> "c1", content_type |-> "text/markdown"],
                  [content |-> "c2"],
                  [note |-> "n"] }

ExportReplies == [outcome : {"ok"}, body : ExportBodies]
                   \cup [outcome : {"http_error", "network_error"},
                         body : {Null}]

\* the text of new Blob([response.data.content])
BlobText(body) ==
    IF "content" \in DOMAIN body THEN <<body.content>> ELSE <<"undefined">>

\* response.data.content_type || 'text/plain'
ContentType(body) ==
    IF "content_type" \in DOMAIN body THEN body.content_type ELSE "text/plain"

\* the GET an export sends; `name` is the file it will be saved under
\* (none for the clipboard export of the ticket module)
NewExport(kind, path, name) == [kind |-> kind, path |-> path, name |-> name]

\* ExportButton.handleExport up to its first await or to its end: a click
\* on the export button b of the mounted module
handleExport(b, dom) ==
    /\ Mounted \in FormModules
    /\ output # Null
    /\ b \in ExportButtons(Mounted)
    /\ IF HasId(output) /\ b.format # "json"
         THEN /\ dom = "returns"
              /\ Len(exports) < MaxExports
              /\ exports' = Append(exports,
                                   NewExport("download",
                                             ExportPath(b.filename, output,
                                                        b.format),
                                             DownloadName(b.filename, b.format)))
              /\ exported' = NoExport
         ELSE /\ exports' = exports
              /\ exported' = Download(JSONstringify(output), "application/json",
                                      b.filename \o <<".", "json">>, dom)
    /\ Quiet
    /\ UNCHANGED <<activeTab, input, output, loading, selectedMember,
                   voiceRecording, metrics, insights, requests, fetches,
                   intervals, elapsed, voice>>

\* SmartTicketGenerator.exportToJira up to its await
exportToJira ==
    /\ Mounted = "SmartTicketGenerator"
    /\ output # Null
    /\ Len(exports) < MaxExports
    /\ exports' = Append(exports,
                         NewExport("clipboard",
                                   <<"/export/ticket/", IdText(output),
                                     "?format=jira">>,
                                   <<>>))
    /\ exported' = NoExport
    /\ Quiet
    /\ UNCHANGED <<activeTab, input, output, loading, selectedMember,
                   voiceRecording, metrics, insights, requests, fetches,
                   intervals, elapsed, voice>>

\* the export GETs in flight once the one in position k has settled: the
\* catch branch sends nothing
AfterExport(es, k) == RemoveAt(es, k)

\* the continuation of handleExport (axios: any non-2xx rejects) or of
\* exportToJira (fetch: only a network error rejects) after the await
ExportSettles(k, reply, dom) ==
    /\ k \in DOMAIN exports
    /\ exports' = AfterExport(exports, k)
    /\ IF exports[k].kind = "download"
         THEN /\ notice' = NoNotice
              /\ IF reply.outcome = "ok"
                   THEN exported' = Download(BlobText(reply.body),
                                             ContentType(reply.body),
                                             exports[k].name, dom)
                   ELSE /\ dom = "returns"
                        /\ exported' = [NoExport EXCEPT !.logged = TRUE]
         ELSE /\ dom = "returns"
              /\ CASE reply.outcome = "ok" ->
                        /\ exported' = [NoExport EXCEPT
                                          !.clipboard = BlobText(reply.body)]
                        /\ notice' = [kind |-> "alert",
                                      text |-> <<"JIRA format copied to clipboard!">>]
                   [] reply.outcome = "http_error" ->
                        /\ exported' = NoExport
                        /\ notice' = NoNotice
                   [] reply.outcome = "network_error" ->
                        /\ exported' = [NoExport EXCEPT !.logged = TRUE]
                        /\ notice' = [kind |-> "alert",
                                      text |-> <<"Export failed">>]
    /\ lateWrites' = {}
    /\ UNCHANGED <<activeTab, input, output, loading, selectedMember,
                   voiceRecording, metrics, insights, requests, fetches,
                   intervals, elapsed, voice>>

(* --------------------------- specification ---------------------------- *)
\* the first render: the Dashboard is mounted and its effect has run
Init ==
    /\ activeTab = "dashboard"
    /\ input = InitialInput("Dashboard")
    /\ output = Null
    /\ loading = TRUE
    /\ selectedMember = ""
    /\ voiceRecording = FALSE
    /\ notice = NoNotice
    /\ metrics = "null"
    /\ insights = "[]"
    /\ requests = <<>>
    /\ fetches = FetchOnMount(<<>>)
    /\ intervals = setInterval({})
    /\ elapsed = 0
    /\ voice = {}
    /\ lateWrites = {}
    /\ exports = <<>>
    /\ exported = NoExport

\* the fields the user edits in the runs explored
Fields == {"team_member_id", "sprint_id", "days_threshold", "description"}

Next ==
    \/ \E tab \in Tabs : SelectTab(tab)
    \/ \E f \in Fields \cap DOMAIN input :
         \E v \in FieldValues(Mounted, f) : EditField(f, v)
    \/ ClickSubmit
    \/ runMockAnalysis
    \/ \E k \in DOMAIN requests :
         \E reply \in RepliesTo(requests[k].module) : Complete(k, reply)
    \/ \E k \in DOMAIN fetches : \E which \in {"m", "i"} :
         \E reply \in GetReplies(which) : GetSettles(k, which, reply)
    \/ \E t \in intervals : Tick(t)
    \/ Advance
    \/ loadExample
    \/ startVoiceRecording
    \/ \E v \in voice : VoiceTimeout(v)

Spec == Init /\ [][Next]_vars

(* ----------------------- specification: export ------------------------ *)
\* ExportButton depends on its props alone (data, filename, format), so
\* the export code is explored from the states in which it is rendered: a
\* form module that shows a result it received for its example input
\* (BlockersModule: for its default input), nothing else in flight
ExportInit ==
    /\ activeTab \in {"standup", "retro", "blockers", "ticket"}
    /\ input = IF activeTab = "blockers" THEN InitialInput("BlockersModule")
               ELSE ExampleInput(renderActiveModule(activeTab))
    /\ output \in ResultsOf(renderActiveModule(activeTab))
    /\ loading = FALSE
    /\ selectedMember = IF activeTab = "standup" THEN "1" ELSE ""
    /\ voiceRecording = FALSE
    /\ notice = NoNotice
    /\ metrics = "null"
    /\ insights = "[]"
    /\ requests = <<>>
    /\ fetches = <<>>
    /\ intervals = {}
    /\ elapsed = 0
    /\ voice = {}
    /\ lateWrites = {}
    /\ exports = <<>>
    /\ exported = NoExport

\* the export handlers, together with the steps that change what the
\* export buttons are given: a further submission and its response, and a
\* switch to another form module
ExportNext ==
    \/ \E b \in ExportButtons(Mounted) : \E dom \in DomOutcomes :
         handleExport(b, dom)
    \/ exportToJira
    \/ \E k \in DOMAIN exports : \E reply \in ExportReplies :
         \E dom \in DomOutcomes : ExportSettles(k, reply, dom)
    \/ \E tab \in Tabs :
         renderActiveModule(tab) \in FormModules /\ SelectTab(tab)
    \/ loadExample
    \/ ClickSubmit
    \/ runMockAnalysis
    \/ \E k \in DOMAIN requests :
         \E reply \in RepliesTo(requests[k].module) : Complete(k, reply)

ExportSpec == ExportInit /\ [][ExportNext]_vars

(* ---------------------- specification: rendering ---------------------- *)
\* data.f is present (reading an absent field yields undefined)
Has(data, f) == f \in DOMAIN data

\* String.prototype.toUpperCase on the sentiments the backend names ("" is
\* the empty text)
toUpperCase(s) ==
    CASE s = "positive" -> "POSITIVE"
      [] s = "neutral"  -> "NEUTRAL"
      [] s = "negative" -> "NEGATIVE"
      [] s = ""         -> ""

\* Math.round of a number given in tenths
MathRound(tenths) == (tenths + 5) \div 10

\* output.sentiment_analysis?.overall_sentiment?.toUpperCase() || 'POSITIVE'
SentimentShown(data) ==
    IF /\ Has(data, "sentiment_analysis")
       /\ Has(data.sentiment_analysis, "overall_sentiment")
       /\ toUpperCase(data.sentiment_analysis.overall_sentiment) # ""
      THEN toUpperCase(data.sentiment_analysis.overall_sentiment)
      ELSE "POSITIVE"

\* Math.round((output.sentiment_analysis?.confidence_score || 0.8) * 100)
\* followed by "% confidence"; a confidence_score is held in thousandths
\* (900 is 0.9), so that score * 100 is a number of tenths
ConfidenceShown(data) ==
    LET score == IF /\ Has(data, "sentiment_analysis")
                    /\ Has(data.sentiment_analysis, "confidence_score")
                    /\ data.sentiment_analysis.confidence_score # 0
                   THEN data.sentiment_analysis.confidence_score
                   ELSE 800
    IN  <<MathRound(score), "% confidence">>

\* output.recommendations && output.recommendations.length > 0 &&
\* output.recommendations.map(rec => <span>{rec}</span>)
RecommendationsShown(data) ==
    IF Has(data, "recommendations") /\ Len(data.recommendations) > 0
      THEN [j \in DOMAIN data.recommendations |-> data.recommendations[j]]
      ELSE <<>>

\* the render of the result panel of a module returns (TRUE) or throws a
\* TypeError (FALSE): BlockersModule reads alert.severity.toLowerCase() and
\* alert.affected_team_members.map of every alert, the ticket preview
\* output.priority.toLowerCase() and output.labels.map; the panels of
\* StandupModule and RetroModule read through ?. and || defaults
Renders(module, data) ==
    CASE data = Null -> TRUE
      [] module = "BlockersModule" /\ data # Null ->
           \/ ~Has(data, "alerts")
           \/ \A j \in DOMAIN data.alerts :
                /\ Has(data.alerts[j], "severity")
                /\ Has(data.alerts[j], "affected_team_members")
      [] module = "SmartTicketGenerator" /\ data # Null ->
           Has(data, "priority") /\ Has(data, "labels")
      [] OTHER -> TRUE

\* a render of the mounted module has thrown: App.js has no error boundary,
\* so React unmounts the tree of App, sidebar and module included
Crashed == Mounted \in FormModules /\ ~Renders(Mounted, output)

\* response bodies over the fields the result panels read, each present
\* or absent
RenderBodies ==
    { [sentiment_analysis |-> [overall_sentiment |-> "positive",
                               confidence_score |-> 900],
       recommendations |-> <<"R1">>],
      [sentiment_analysis |-> [overall_sentiment |-> "negative",
                               confidence_score |-> 0],
       recommendations |-> <<"R1", "R2">>],
      [sentiment_analysis |-> [overall_sentiment |-> "neutral",
                               confidence_score |-> 856],
       recommendations |-> <<>>],
      [formatted_output |-> "a"],
      [summary |-> "b",
       alerts |-> <<[severity |-> "High", title |-> "t",
                     affected_team_members |-> <<>>]>>],
      [summary |-> "b", alerts |-> <<[title |-> "t"]>>],
      [priority |-> "High", labels |-> <<"bug">>],
      [title |-> "T"] }

\* how a POST can settle when the backend may answer with any of them
RenderReplies ==
    [outcome : {"ok"}, body : RenderBodies]
      \cup [outcome : {"http_error"}, body : ErrorBodies]
      \cup {[outcome |-> "network_error", body |-> Null]}

\* the result panels depend on output alone, so they are explored from a
\* form module that holds its example input (BlockersModule: its default
\* input) and shows no result yet
RenderInit ==
    /\ activeTab \in {"standup", "retro", "blockers", "ticket"}
    /\ input = IF activeTab = "blockers" THEN InitialInput("BlockersModule")
               ELSE ExampleInput(renderActiveModule(activeTab))
    /\ output = Null
    /\ loading = FALSE
    /\ selectedMember = IF activeTab = "standup" THEN "1" ELSE ""
    /\ voiceRecording = FALSE
    /\ notice = NoNotice
    /\ metrics = "null"
    /\ insights = "[]"
    /\ requests = <<>>
    /\ fetches = <<>>
    /\ intervals = {}
    /\ elapsed = 0
    /\ voice = {}
    /\ lateWrites = {}
    /\ exports = <<>>
    /\ exported = NoExport

\* submissions and their responses, and the switch to another form module;
\* once a render has thrown, no handler is left to run
RenderNext ==
    \/ ~Crashed /\ ClickSubmit
    \/ ~Crashed /\ runMockAnalysis
    \/ ~Crashed /\ loadExample
    \/ \E tab \in Tabs :
         /\ ~Crashed
         /\ renderActiveModule(tab) \in FormModules
         /\ SelectTab(tab)
    \/ \E k \in DOMAIN requests : \E reply \in RenderReplies :
         ~Crashed /\ Complete(k, reply)

RenderSpec == RenderInit /\ [][RenderNext]_vars

(* ------------------------------ claims -------------------------------- *)
Range(s) == {s[j] : j \in DOMAIN s}

\* the POSTs in flight that belong to the mounted instance
AlivePosts == {k \in DOMAIN requests : requests[k].alive}

\* the required fields of the mounted module's FormInput that are empty
EmptyRequired == {f \in Range(RequiredControls(Mounted)) : input[f] = ""}

\* the field a validation message points the user to
NamedField(n) ==
    IF n.kind = "validity" THEN n.text[1]
    ELSE IF n.text = <<"Please select a team member">> THEN "team_member_id"
    ELSE IF n.text = <<"Please provide a ticket description">> THEN "description"
    ELSE ""

\* the submit of the mounted module passes the browser's and the handler's
\* validation
PassesValidation ==
    /\ InvalidControls(Mounted) = <<>>
    /\ HandlerChecks(Mounted) # "" => input[HandlerChecks(Mounted)] # ""

\* C1: whenever a POST of the mounted module fails (non-2xx or network
\* error), the result shown after the call equals the result that was shown
\* immediately before the call was made.
C1_FailedSubmitKeepsResult ==
    [][\A k \in DOMAIN requests : \A reply \in Replies :
         (reply.outcome # "ok" /\ requests[k].alive /\ Complete(k, reply))
           => output' = requests[k].before]_vars

\* C2: whenever a POST of the mounted module succeeds, the stored result
\* after the call is exactly the response body: every field of the body and
\* no field of the previous result.
C2_SuccessReplacesResult ==
    [][\A k \in DOMAIN requests : \A reply \in Replies :
         (reply.outcome = "ok" /\ requests[k].alive /\ Complete(k, reply))
           => /\ output' = reply.body
              /\ DOMAIN output' = DOMAIN reply.body]_vars

\* C2 witness: a module shows a result it received and no call is pending
C2_Witness ==
    /\ Mounted \in FormModules
    /\ output \in Results
    /\ AlivePosts = {}
    /\ ~loading

\* C3: a submit of a FormInput with an empty required field sends no POST
\* and shows a validation message that names an empty required field.
C3_EmptyRequiredBlocksSubmit ==
    [][(ClickSubmit /\ EmptyRequired # {})
         => /\ requests' = requests
            /\ NamedField(notice') \in EmptyRequired]_vars

\* C4: a submit that passes validation sends exactly one POST, to the fixed
\* path of its module; no other step sends a POST, and a POST that settles
\* (failed or not) leaves the flight list one shorter: it is never re-sent.
C4_OnePostPerSubmit ==
    [][/\ (PassesValidation /\ (ClickSubmit \/ runMockAnalysis))
          => /\ Len(requests') = Len(requests) + 1
             /\ SubSeq(requests', 1, Len(requests)) = requests
             /\ requests'[Len(requests')].path =
                  (CASE activeTab = "standup"  -> "/api/standup"
                     [] activeTab = "retro"    -> "/api/retrospective"
                     [] activeTab = "blockers" -> "/api/blockers"
                     [] activeTab = "ticket"   -> "/ticket")
       /\ Len(requests') > Len(requests) => (ClickSubmit \/ runMockAnalysis)
       /\ Len(requests') # Len(requests) - 1
          => \A k \in DOMAIN requests : \A reply \in Replies :
               ~Complete(k, reply)]_vars

\* C4 witness: a validated submit has sent its POST to the module's path
C4_Witness ==
    /\ activeTab = "retro"
    /\ Len(requests) = 1
    /\ requests[1].alive
    /\ requests[1].path = "/api/retrospective"
    /\ loading

\* C5: in a form module, loading is true exactly while a POST of the
\* mounted instance is pending.
C5_LoadingWhilePending ==
    Mounted \in FormModules => (loading <=> AlivePosts # {})

\* C6: in the Blockers module a further submit is never blocked: Run
\* Analysis can be clicked whenever the module is mounted, also while a POST
\* is pending and loading is true.
C6_SecondSubmitNotBlocked ==
    (Mounted = "BlockersModule" /\ Len(requests) < MaxRequests)
      => ENABLED runMockAnalysis

\* C6 witness: two POSTs of one module instance are pending at once
C6_Witness ==
    /\ Mounted = "BlockersModule"
    /\ Cardinality(AlivePosts) >= 2

\* C7: no completion of an exchange calls a state setter of a module
\* instance that has been unmounted.
C7_NoUpdateAfterUnmount ==
    lateWrites \cap {"setOutput", "setLoading", "setMetrics", "setInsights"} = {}

\* the fetch cycles in flight that belong to the mounted Dashboard
AliveFetches == {k \in DOMAIN fetches : fetches[k].alive}

\* the Dashboard was torn down with a fetch cycle pending
DashboardTornDown ==
    /\ Mounted # "Dashboard"
    /\ \E k \in DOMAIN fetches : ~fetches[k].alive

\* C8: once the Dashboard is unmounted its polling timer is gone and no
\* fetch cycle is started: every timer that exists belongs to the mounted
\* Dashboard, and every fetch cycle that starts is started by it.
C8_PollingStopsOnUnmount ==
    /\ [](\A t \in intervals : t.alive /\ Mounted = "Dashboard")
    /\ [][Len(fetches') > Len(fetches)
            => /\ renderActiveModule(activeTab') = "Dashboard"
               /\ fetches'[Len(fetches')].alive]_vars

\* C8 witness: the Dashboard has been unmounted while a fetch cycle was
\* pending, and no timer is left
C8_Witness ==
    /\ DashboardTornDown
    /\ \E k \in DOMAIN fetches : fetches[k].m = "resolved"
    /\ intervals = {}

\* C9: a mount of the Dashboard starts exactly one fetch cycle at once and
\* arms the timer with 30 s; every other fetch cycle starts on a tick, one
\* at a time, at least 30 s after the previous cycle of that mount started.
C9_OneFetchPerInterval ==
    /\ Cardinality(AliveFetches) = 1
    /\ [][/\ (activeTab' = "dashboard" /\ activeTab # "dashboard")
             => /\ Cardinality(AliveFetches') = 1
                /\ fetches'[Len(fetches')] =
                     [alive |-> TRUE, m |-> "pending", i |-> "pending"]
                /\ Len(fetches') = Len(fetches) + 1
                /\ intervals' = {[alive |-> TRUE, left |-> 30000]}
          /\ (activeTab' = activeTab /\ Len(fetches') > Len(fetches))
             => /\ Len(fetches') = Len(fetches) + 1
                /\ elapsed >= 30000
                /\ elapsed' = 0]_vars

\* C9 witness: a second cycle of one mount has started, on a tick, while
\* the first was still pending
C9_Witness ==
    /\ Mounted = "Dashboard"
    /\ Cardinality(AliveFetches) = 2
    /\ elapsed = 0

\* C10: a module holds one result slot: it is empty or holds one response
\* body, it changes only when a POST of the mounted instance succeeds (to
\* that response body) or when the module is remounted (to empty); no
\* other step, in particular no failure, brings an earlier result back.
C10_SingleResultSlot ==
    /\ [](output \in Results \cup {Null})
    /\ [][output' # output
            => \/ \E k \in AlivePosts : \E reply \in Replies :
                    /\ reply.outcome = "ok"
                    /\ Complete(k, reply)
                    /\ output' = reply.body
               \/ activeTab' # activeTab /\ output' = Null]_vars

\* C10 witness: a result has replaced an earlier, different one while a
\* further POST issued under the earlier one is still pending
C10_Witness ==
    /\ output \in Results
    /\ \E k \in AlivePosts :
         /\ requests[k].before \in Results
         /\ requests[k].before # output

\* the module is between submissions: nothing of the mounted instance is
\* in flight and the spinner is off
Idle == ~loading /\ AlivePosts = {}

\* the module waits for the response of a submission
Submitting == loading /\ AlivePosts # {}

\* every POST that is in flight eventually resolves or rejects
LiveSpec ==
    Spec /\ WF_vars(\E k \in DOMAIN requests :
                      \E reply \in RepliesTo(requests[k].module) :
                       Complete(k, reply))

\* C11: every submission that sends a POST takes its module from Idle to
\* Submitting; the POST of the mounted instance that settles takes it to
\* Success (the response is the result) or back to Idle with the result
\* unchanged; and, POSTs in flight eventually settling, a module that is
\* loading eventually stops loading (or is discarded by a tab switch).
C11_SubmitStateMachine ==
    /\ [][/\ Len(requests') > Len(requests) => (Idle /\ Submitting')
          /\ \A k \in AlivePosts : \A reply \in Replies :
               Complete(k, reply)
                 => /\ Idle'
                    /\ output' = IF reply.outcome = "ok" THEN reply.body
                                  ELSE output]_vars
    /\ (Mounted \in FormModules /\ loading)
         ~> (Mounted \notin FormModules \/ ~loading)

(* ------------------------- claims: export ----------------------------- *)
\* the step is a click on an export control of a non-json format
NonJsonExportClick ==
    \/ \E b \in ExportButtons(Mounted) : \E dom \in DomOutcomes :
         b.format # "json" /\ handleExport(b, dom)
    \/ exportToJira

\* the step is an export that failed: its GET failed, or a DOM call of its
\* download threw
FailedDownload ==
    \/ \E k \in DOMAIN exports : \E reply \in ExportReplies :
         /\ exports[k].kind = "download"
         /\ \/ reply.outcome # "ok" /\ ExportSettles(k, reply, "returns")
            \/ reply.outcome = "ok" /\ ExportSettles(k, reply, "throws")
    \/ \E b \in ExportButtons(Mounted) : handleExport(b, "throws")

\* C12: an export with a non-json format of a result that has no identifier
\* raises an error (shown or logged), sends no GET and produces no file,
\* from the shared export button and from the ticket module's Export to
\* JIRA alike.
C12_NoIdExportRaises ==
    [][(output # Null /\ ~HasId(output) /\ NonJsonExportClick)
         => /\ exports' = exports
            /\ exported'.file = NoFile
            /\ exported'.logged \/ notice' # NoNotice]_vars

\* C13: a json export (the DOM calls of the download returning normally)
\* sends no GET and produces one file, named <stem>.json, of type
\* application/json, whose text is the whole result pretty-printed: one
\* indented line per field of the result, with or without an identifier.
C13_JsonExportLocal ==
    [][\A b \in ExportButtons(Mounted) :
         (b.format = "json" /\ handleExport(b, "returns"))
           => /\ exports' = exports
              /\ exported'.file # NoFile
              /\ exported'.file.name = b.filename \o <<".", "json">>
              /\ exported'.file.type = "application/json"
              /\ LET text == exported'.file.content
                 IN  /\ Head(text) = "{"
                     /\ text[Len(text)] = "\n}"
                     /\ \A f \in DOMAIN output :
                          \E j \in DOMAIN text :
                            /\ text[j] = "\n  "
                            /\ SubSeq(text, j + 1, j + 7)
                                 = <<"\"", f, "\"", ": ", "\"", output[f], "\"">>
                     /\ Cardinality({j \in DOMAIN text : text[j] = "\n  "})
                          = Cardinality(DOMAIN output)]_vars

\* C13 witness: a result that carries an identifier has been exported as
\* json, with no GET in flight
C13_Witness ==
    /\ output # Null
    /\ HasId(output)
    /\ exports = <<>>
    /\ exported.file # NoFile
    /\ exported.file.type = "application/json"
    /\ exported.file.name = <<"standup", "-", "summary", ".", "json">>

\* C14: a click on a non-json export button for a result with an
\* identifier sends exactly one GET, to /export/{module}/{id}?format=F with
\* module the part of the filename stem before its first '-', and nothing
\* else sends an export GET for a button; when the GET succeeds (and the
\* DOM calls return) the response's content is downloaded unchanged as
\* <stem>.md for markdown and <stem>.<format> otherwise, and no further
\* GET is sent.
C14_ExportByGet ==
    [][/\ \A b \in ExportButtons(Mounted) :
            (b.format # "json" /\ output # Null /\ HasId(output)
               /\ handleExport(b, "returns"))
              => /\ Len(exports') = Len(exports) + 1
                 /\ SubSeq(exports', 1, Len(exports)) = exports
                 /\ exported'.file = NoFile
                 /\ exports'[Len(exports')].path =
                      <<"/api", "/export/",
                        IF Mounted = "StandupModule" THEN "standup"
                        ELSE "retrospective",
                        "/", output.id, "?format=", b.format>>
                 /\ exports'[Len(exports')].name =
                      b.filename
                        \o (IF b.format = "markdown" THEN <<".", "md">>
                            ELSE <<".", b.format>>)
       /\ (Len(exports') > Len(exports)
             /\ exports'[Len(exports')].kind = "download")
            => \E b \in ExportButtons(Mounted) : handleExport(b, "returns")
       /\ \A k \in DOMAIN exports : \A reply \in ExportReplies :
            (exports[k].kind = "download" /\ reply.outcome = "ok"
               /\ "content" \in DOMAIN reply.body
               /\ ExportSettles(k, reply, "returns"))
              => /\ exported'.file # NoFile
                 /\ exported'.file.content = <<reply.body.content>>
                 /\ exported'.file.name = exports[k].name
                 /\ Len(exports') = Len(exports) - 1]_vars

\* C14 witness: the markdown export of a Standup result has been
\* downloaded as standup-summary.md with the content of the response
C14_Witness ==
    /\ Mounted = "StandupModule"
    /\ exported.file # NoFile
    /\ exported.file.name = <<"standup", "-", "summary", ".", "md">>
    /\ exported.file.content = <<"c1">>
    /\ exports = <<>>

\* C15: every object URL an export creates is released before the export
\* finishes, whatever its outcome, also when a step after the creation
\* throws.
C15_ObjectUrlReleased == exported.created = exported.revoked

\* C16: a failed export of the shared button (failed GET, failed download,
\* missing identifier) is logged, sends no GET again, downloads no file and
\* leaves the module's input, output and loading as they were.
C16_ExportFailureContained ==
    [][(\/ FailedDownload
        \/ /\ output # Null
           /\ ~HasId(output)
           /\ \E b \in ExportButtons(Mounted) : \E dom \in DomOutcomes :
                b.format # "json" /\ handleExport(b, dom))
         => /\ exported'.logged
            /\ exported'.file = NoFile
            /\ Len(exports') <= Len(exports)
            /\ UNCHANGED <<input, output, loading>>]_vars

\* C17: parsing the text a json export downloads gives back the result the
\* module holds, field for field.
C17_JsonRoundTrip ==
    (exported.file # NoFile /\ exported.file.type = "application/json")
      => JSONparse(exported.file.content) = output

\* C17 witness: a json export of a received result has been downloaded and
\* parses back to it
C17_Witness ==
    /\ output \in Results
    /\ exported.file # NoFile
    /\ exported.file.type = "application/json"
    /\ exported.file.name = <<"blocker", "-", "analysis", ".", "json">>
    /\ DOMAIN JSONparse(exported.file.content) = DOMAIN output

(* ------------------- claims: router and examples ---------------------- *)
\* the module each tab identifier is specified to show
ViewOf == [dashboard |-> "Dashboard", standup |-> "StandupModule",
           retro |-> "RetroModule", blockers |-> "BlockersModule",
           ticket |-> "SmartTicketGenerator",
           sprint |-> "construction-notice",
           insights |-> "construction-notice",
           integrations |-> "construction-notice"]

\* tab values no menu item carries
OtherTabs == {"", "settings", "Dashboard"}

\* C18: the view shown is a function of the tab identifier alone:
\* dashboard, standup, retro, blockers and ticket show their own module,
\* sprint, insights and integrations a static placeholder without state,
\* every other value the Dashboard; the first tab is dashboard.
C18_RouterMapping ==
    /\ activeTab = "dashboard"
    /\ [](/\ activeTab \in DOMAIN ViewOf
          /\ Mounted = ViewOf[activeTab]
          /\ \A t \in DOMAIN ViewOf : renderActiveModule(t) = ViewOf[t]
          /\ \A t \in OtherTabs : renderActiveModule(t) = "Dashboard"
          /\ ViewOf[activeTab] = "construction-notice"
               => /\ input = NoInput
                  /\ output = Null
                  /\ ~loading
          /\ ViewOf[activeTab] \in FormModules
               => DOMAIN input = DOMAIN InitialInput(ViewOf[activeTab]))

\* C18 witness: a placeholder tab is shown
C18_Witness ==
    /\ activeTab = "insights"
    /\ Mounted = "construction-notice"
    /\ input = NoInput

\* C19: one module is mounted at a time and a tab switch discards the state
\* of the module left: the module switched to starts with its initial
\* FormInput, no result, and nothing in flight that could still write to
\* it, whatever was typed or received in an earlier visit.
C19_SwitchDiscardsState ==
    [][activeTab' # activeTab
         => /\ input' = InitialInput(ViewOf[activeTab'])
            /\ output' = Null
            /\ selectedMember' = ""
            /\ ~voiceRecording'
            /\ \A k \in DOMAIN requests' : ~requests'[k].alive
            /\ \A v \in voice' : ~v.alive]_vars

\* C19 witness: the Standup module has been left with a submission pending
\* and entered again: it is back at its initial state
C19_Witness ==
    /\ Mounted = "StandupModule"
    /\ input = InitialInput("StandupModule")
    /\ output = Null
    /\ \E k \in DOMAIN requests :
         requests[k].module = "StandupModule" /\ ~requests[k].alive

\* C20: Load example overwrites the FormInput of Standup, Retrospective and
\* Ticket with the module's fixed canned value, whatever it held before; a
\* second call leaves it as the first did; it sends nothing and changes
\* neither output nor loading.
C20_LoadExampleDeterministic ==
    [][loadExample
         => /\ Mounted \in {"StandupModule", "RetroModule",
                            "SmartTicketGenerator"}
            /\ input' = ExampleInput(Mounted)
            /\ input = ExampleInput(Mounted) => input' = input
            /\ UNCHANGED <<output, loading, requests, fetches, exports>>]_vars

\* C20 witness: the example is loaded in a module that shows a result and
\* has nothing in flight
C20_Witness ==
    /\ Mounted = "RetroModule"
    /\ input = ExampleInput("RetroModule")
    /\ output \in Results
    /\ requests = <<>>
    /\ ~loading

\* C21: when the voice timer of the mounted Standup module fires, yesterday
\* becomes the canned transcript and every other FormInput field keeps the
\* value it has at that moment, edits and a loaded example made while the
\* recording was pending included.
C21_VoiceOverwritesOneField ==
    [][\A v \in voice :
         (v.alive /\ VoiceTimeout(v))
           => input' = [input EXCEPT !.yesterday = Transcript]]_vars

\* C25: in the Standup module the team member shown as selected in the
\* dropdown always equals FormInput.team_member_id, also after a voice
\* transcript arrives once the member has been changed.
C25_SelectedMemberInSync ==
    Mounted = "StandupModule" => selectedMember = input.team_member_id

\* the voice timers of the mounted Standup instance that have not fired
AliveVoice == {v \in voice : v.alive}

\* C29: a mounted Standup instance has at most one voice timer pending, its
\* recording flag is true exactly while one is pending, recording cannot be
\* started again before the pending timer is delivered, and the flag is
\* false again once it is delivered.
C29_OneVoiceTimer ==
    Mounted = "StandupModule"
      => /\ Cardinality(AliveVoice) <= 1
         /\ voiceRecording <=> AliveVoice # {}
         /\ AliveVoice # {} => ~ENABLED startVoiceRecording

\* C29 witness: a recording was delivered and a second one is pending, with
\* the form edited since it was started
C29_Witness ==
    /\ Mounted = "StandupModule"
    /\ voiceRecording
    /\ input.yesterday = Transcript
    /\ \E v \in AliveVoice : v.captured # input

\* C30: the timer callback of a Standup instance that a tab switch has
\* unmounted never writes that instance's FormInput or recording flag.
C30_NoVoiceWriteAfterUnmount ==
    lateWrites \cap {"setVoiceRecording", "setInput"} = {}

\* C28: Run Analysis in the Blockers module resets the scan parameters to
\* their defaults (days_threshold 3, both scope flags true) and the request
\* it sends carries those defaults, whatever the form held before.
C28_RunAnalysisSendsDefaults ==
    [][runMockAnalysis
         => /\ input' = InitialInput("BlockersModule")
            /\ Len(requests') = Len(requests) + 1
            /\ requests'[Len(requests')].body
                 = InitialInput("BlockersModule")]_vars

\* C24: in the Ticket module a non-2xx response shows an error that carries
\* the response's detail field, or a fixed fallback text when detail is
\* absent, leaves the stored result unchanged and ends with loading false;
\* in the other modules the same failure shows nothing.
C24_TicketErrorSurfaced ==
    [][requests' # requests
         => \A k \in DOMAIN requests : \A reply \in Replies :
              (/\ reply.outcome = "http_error"
               /\ requests[k].alive
               /\ Complete(k, reply))
                => IF Mounted = "SmartTicketGenerator"
                     THEN /\ notice'.kind = "alert"
                          /\ notice'.text =
                               IF "detail" \in DOMAIN reply.body
                                 THEN <<"Error: ", reply.body.detail>>
                                 ELSE <<"Error: ", "Failed to generate ticket">>
                          /\ output' = output
                          /\ ~loading'
                     ELSE notice' = NoNotice]_vars

\* C24 witness: the Ticket module shows a result, a second submission was
\* answered with a non-2xx response whose detail is on display, and loading
\* is over
C24_Witness ==
    /\ Mounted = "SmartTicketGenerator"
    /\ notice = [kind |-> "alert", text |-> <<"Error: ", "Invalid ticket">>]
    /\ output \in Results
    /\ ~loading
    /\ requests = <<>>

\* C27: the dashboard's metrics and insights come from the same fetch
\* cycle: a cycle of the mounted Dashboard writes both when its two GETs
\* have succeeded and writes neither when one of them fails, also when
\* cycles overlap.
C27_MetricsInsightsSameCycle ==
    [][fetches' # fetches
         => \A k \in DOMAIN fetches : \A which \in {"m", "i"} :
              \A reply \in GetReplies(which) :
                (fetches[k].alive /\ GetSettles(k, which, reply))
                  => LET c == [fetches[k] EXCEPT ![which] = reply.body]
                     IN  IF /\ reply.outcome = "ok"
                            /\ c.m \in MetricsBodies
                            /\ c.i \in InsightsBodies
                           THEN metrics' = c.m /\ insights' = c.i
                           ELSE UNCHANGED <<metrics, insights>>]_vars

\* C27 witness: the Dashboard shows the pair of one cycle while an
\* overlapping cycle has its metrics answer, a different one, and still
\* waits for its insights
C27_Witness ==
    /\ Mounted = "Dashboard"
    /\ metrics = "m1"
    /\ insights = "i1"
    /\ \E k \in DOMAIN fetches :
         /\ fetches[k].alive
         /\ fetches[k].m = "m2"
         /\ fetches[k].i = "pending"

\* C26: when two submissions of one module instance overlap, the result on
\* display once both are answered is the response to the one issued last,
\* whatever the order of arrival: once the later one has been answered with
\* a result, no answer to an earlier one that is still pending can replace
\* that result (requests holds the POSTs in the order they were issued).
C26_LastIssuedWins ==
    [][\A k \in DOMAIN requests : \A reply \in Replies :
         (/\ reply.outcome = "ok"
          /\ requests[k].alive
          /\ \E j \in 1..(k - 1) : requests[j].alive
          /\ Complete(k, reply))
           => ~(ENABLED (\E j \in 1..(k - 1) : \E earlier \in Replies :
                          /\ j \in DOMAIN requests
                          /\ requests[j].alive
                          /\ Complete(j, earlier)
                          /\ output' # output))']_vars

\* C22: no error is fatal: whatever a request fails with and whatever body
\* the backend answers with, fields such as alerts[].severity, priority or
\* labels absent, the application stays mounted.
C22_NoErrorIsFatal == ~Crashed

\* C23: the Standup result panel shows the response's values: the sentiment
\* is the upper-cased overall_sentiment, the confidence is confidence_score
\* as a whole percentage followed by "% confidence", for every score from 0
\* to 1, and the recommendation list is the response's recommendations in
\* their order.
C23_StandupPanelShowsResponse ==
    (/\ Mounted = "StandupModule"
     /\ output # Null
     /\ Has(output, "sentiment_analysis")
     /\ Has(output, "recommendations"))
      => /\ SentimentShown(output)
              = toUpperCase(output.sentiment_analysis.overall_sentiment)
         /\ ConfidenceShown(output)
              = <<MathRound(output.sentiment_analysis.confidence_score),
                  "% confidence">>
         /\ RecommendationsShown(output) = output.recommendations

====
